---- MODULE Spec2Model ----
(***************************************************************************)
(* GenAITextProvider (backend/services/ai_providers/text/genai_provider.py) *)
(* as a state machine: the process-wide GENAI_MAX_RETRIES setting, the      *)
(* retry decorators evaluated when the module is imported, the client built *)
(* by __init__, and generate_text / generate_with_image calls running under *)
(* the tenacity retry loop (attempt, stop check, wait, before_sleep log,    *)
(* sleep, next attempt).                                                    *)
(***************************************************************************)
EXTENDS Integers, Sequences, FiniteSets, TLC

VARIABLES
    config,          \* get_config().GENAI_MAX_RETRIES, as it is now
    imported,        \* the module was imported: both @retry decorators were evaluated
    decorated_with,  \* the GENAI_MAX_RETRIES value the decorators read at import
    stop,            \* per operation, the argument bound into stop_after_attempt
    client,          \* the GenAITextProvider object: self.client (session) and self.model
    call             \* per calling thread, its generate_* call and tenacity retry state

vars == <<config, imported, decorated_with, stop, client, call>>

-----------------------------------------------------------------------------
(* Bounds of the model *)

MaxRetries == 2
MaxBudget == 2
BackoffRetries == 6
ConcRetries == 1

(* wait_exponential(multiplier=1, min=2, max=10); exp_base is tenacity's default *)
WaitMultiplier == 1
WaitMin == 2
WaitMax == 10
ExpBase == 2

Ops == {"generate_text", "generate_with_image"}
Texts == {"slide", "outline"}
DefaultModel == "gemini-3-flash-preview"
DefaultLocation == "us-central1"

Min(a, b) == IF a < b THEN a ELSE b
Max(a, b) == IF a > b THEN a ELSE b

-----------------------------------------------------------------------------
(* Values *)

NoErr == [type |-> "none", attempt |-> 0]
NoText == ""
NoClient == [status |-> "none", vertexai |-> FALSE, project |-> "", location |-> "",
             api_key |-> "", model |-> ""]

(* A provider response: generate_content raises, or returns an object whose
   .text is a string or None and whose .candidates may be empty. *)
Candidate == [finish_reason |-> "SAFETY", safety_ratings |-> "ratings"]
RespText(txt) == [raises |-> FALSE, text_is_none |-> FALSE, text |-> txt,
                  candidates |-> <<Candidate>>]
RespEmptyCand == [raises |-> FALSE, text_is_none |-> TRUE, text |-> NoText,
                  candidates |-> <<Candidate>>]
RespEmptyNoCand == [raises |-> FALSE, text_is_none |-> TRUE, text |-> NoText,
                    candidates |-> <<>>]
RespError == [raises |-> TRUE, text_is_none |-> TRUE, text |-> NoText,
              candidates |-> <<>>]
NoResp == [raises |-> FALSE, text_is_none |-> TRUE, text |-> NoText,
           candidates |-> <<>>]

AllResponses == {RespText(x) : x \in Texts} \cup {RespEmptyCand, RespEmptyNoCand, RespError}
PlainResponses == {RespText(x) : x \in Texts} \cup {RespError}

IdleCall == [pc |-> "idle", op |-> "generate_text", image_ok |-> TRUE, budget |-> 0,
             cfg_at_start |-> 0, attempt_number |-> 0, outcomes |-> <<>>,
             waits |-> <<>>, sent |-> <<>>, log |-> <<>>,
             result |-> NoText, error |-> NoErr]

-----------------------------------------------------------------------------
(* The retry decorator's parts *)

(* stop=stop_after_attempt(get_config().GENAI_MAX_RETRIES + 1): the argument is
   computed once, when the decorator is evaluated *)
DecoratorStopOffByOne(cfg) == cfg
DecoratorStop(cfg) == cfg + 1

(* The limit a running retry sequence enforces: the value bound at decoration,
   whatever the setting is now *)
MaxAttemptNumberLazy(bound, cfg) == cfg + 1
MaxAttemptNumber(bound, cfg) == bound

(* tenacity stop_after_attempt.__call__: attempt_number >= max_attempt_number *)
stop_after_attempt(max_attempt_number, attempt_number) ==
    attempt_number >= max_attempt_number

(* tenacity wait_exponential.__call__ with multiplier=1, min=2, max=10 *)
wait_exponential_uncapped(attempt_number) ==
    Max(Max(0, WaitMin), WaitMultiplier * ExpBase ^ (attempt_number - 1))
wait_exponential(attempt_number) ==
    Max(Max(0, WaitMin), Min(WaitMultiplier * ExpBase ^ (attempt_number - 1), WaitMax))

(* @retry without a retry= argument: every exception is retried *)
retry_if_exception(err) == TRUE

(* reraise=True: on exhaustion the last attempt's own exception is raised *)
RetryErrorWrap(last_err) == [type |-> "RetryError", attempt |-> last_err.attempt]
Reraise(last_err) == last_err

(* _log_retry: one warning with attempt number, total read from the config
   now, and the outcome's exception *)
LogRetryNoPlusOne(attempt_number, err, cfg) ==
    [kind |-> "retry", attempt |-> attempt_number, total |-> cfg, error |-> err]
LogRetry(attempt_number, err, cfg) ==
    [kind |-> "retry", attempt |-> attempt_number, total |-> cfg + 1, error |-> err]

(* retry_state.prepare_for_next_attempt(): the call's own attempt_number + 1 *)
NextAttemptShared(t) ==
    1 + Max(call["t1"].attempt_number, call[t].attempt_number)
NextAttemptNumber(t) == call[t].attempt_number + 1

-----------------------------------------------------------------------------
(* The bodies of the generation methods *)

DiagEntry(k) == [kind |-> k, attempt |-> 0, total |-> 0, error |-> NoErr]

(* _validate_response: the diagnostic warnings, then the text or a ValueError *)
ValidateDiag(resp) ==
    IF resp.text_is_none /\ Len(resp.candidates) > 0
    THEN <<DiagEntry("finish_reason"), DiagEntry("safety_ratings")>>
    ELSE <<>>
validate_response_lenient(resp) ==
    [ok |-> TRUE, text |-> resp.text, etype |-> "none", diag |-> ValidateDiag(resp)]
validate_response(resp) ==
    IF resp.text_is_none
    THEN [ok |-> FALSE, text |-> NoText, etype |-> "EmptyResponse", diag |-> ValidateDiag(resp)]
    ELSE [ok |-> TRUE, text |-> resp.text, etype |-> "none", diag |-> <<>>]

(* config_params: {} or {'thinking_config': ThinkingConfig(thinking_budget=N)} *)
EmptyParams == [k \in {} |-> 0]
ConfigParamsAlways(thinking_budget) == [k \in {"thinking_config"} |-> thinking_budget]
ConfigParams(thinking_budget) ==
    IF thinking_budget > 0
    THEN [k \in {"thinking_config"} |-> thinking_budget]
    ELSE EmptyParams

(* The arguments of self.client.models.generate_content *)
Request(c, op, budget) ==
    [model |-> c.model,
     contents |-> IF op = "generate_with_image" THEN <<"img", "prompt">> ELSE <<"prompt">>,
     config_is_none |-> (DOMAIN ConfigParams(budget) = {}),
     params |-> ConfigParams(budget)]

(* One execution of the decorated function: Image.open (image operation only),
   the request, the provider's response, _validate_response *)
RunBody(c, resp) ==
    IF c.op = "generate_with_image" /\ ~c.image_ok
    THEN [ok |-> FALSE, text |-> NoText, etype |-> "ImageLoadError", diag |-> <<>>,
          sent |-> <<>>, resp |-> NoResp]
    ELSE IF resp.raises
    THEN [ok |-> FALSE, text |-> NoText, etype |-> "ProviderError", diag |-> <<>>,
          sent |-> <<Request(client, c.op, c.budget)>>, resp |-> resp]
    ELSE [ok |-> validate_response(resp).ok, text |-> validate_response(resp).text,
          etype |-> validate_response(resp).etype, diag |-> validate_response(resp).diag,
          sent |-> <<Request(client, c.op, c.budget)>>, resp |-> resp]

-----------------------------------------------------------------------------
(* Actions *)

(* The process-wide setting is changed (at any time) *)
SetConfig(Rs) ==
    /\ \E r \in Rs : r # config /\ config' = r
    /\ UNCHANGED <<imported, decorated_with, stop, client, call>>

(* Module import: the class body runs and both @retry decorators are evaluated *)
Import ==
    /\ ~imported
    /\ imported' = TRUE
    /\ decorated_with' = config
    /\ stop' = [op \in Ops |-> DecoratorStop(config)]
    /\ UNCHANGED <<config, client, call>>

(* GenAITextProvider.__init__: no check of its own; genai.Client accepts the
   arguments or raises *)
Construct(Modes, Keys, Projects, Models) ==
    /\ imported
    /\ client.status = "none"
    /\ \E vertexai \in Modes, api_key \in Keys, project_id \in Projects,
          model \in Models, sdk_accepts \in BOOLEAN :
         client' =
            IF ~sdk_accepts
            THEN [NoClient EXCEPT !.status = "failed"]
            ELSE IF vertexai
            THEN [status |-> "ready", vertexai |-> TRUE, project |-> project_id,
                  location |-> DefaultLocation, api_key |-> "", model |-> model]
            ELSE [status |-> "ready", vertexai |-> FALSE, project |-> "",
                  location |-> "", api_key |-> api_key, model |-> model]
    /\ UNCHANGED <<config, imported, decorated_with, stop, call>>

(* A thread calls generate_text or generate_with_image: a fresh RetryCallState *)
StartCall(t, OpSet, ImageOks, Budgets) ==
    /\ client.status = "ready"
    /\ call[t].pc = "idle"
    /\ \E op \in OpSet, ok \in ImageOks, b \in Budgets :
         /\ (op = "generate_text" => ok)
         /\ call' = [call EXCEPT ![t] =
                [IdleCall EXCEPT !.pc = "attempt", !.op = op, !.image_ok = ok,
                                 !.budget = b, !.cfg_at_start = config,
                                 !.attempt_number = 1]]
    /\ UNCHANGED <<config, imported, decorated_with, stop, client>>

(* One attempt and tenacity's decision on its outcome *)
Attempt(t, Responses) ==
    /\ call[t].pc = "attempt"
    /\ \E resp \in Responses :
         LET c == call[t]
             n == c.attempt_number
             b == RunBody(c, resp)
             err == IF b.ok THEN NoErr ELSE [type |-> b.etype, attempt |-> n]
             o == [ok |-> b.ok, text |-> b.text, err |-> err, resp |-> b.resp]
             c1 == [c EXCEPT !.outcomes = Append(@, o), !.sent = @ \o b.sent,
                             !.log = @ \o b.diag]
             limit == MaxAttemptNumber(stop[c.op], config)
         IN  call' = [call EXCEPT ![t] =
                IF b.ok
                THEN [c1 EXCEPT !.pc = "returned", !.result = b.text]
                ELSE IF ~retry_if_exception(err)
                THEN [c1 EXCEPT !.pc = "raised", !.error = err]
                ELSE IF stop_after_attempt(limit, n)
                THEN [c1 EXCEPT !.pc = "raised", !.error = Reraise(err)]
                ELSE [c1 EXCEPT !.pc = "sleeping",
                                !.waits = Append(@, wait_exponential(n)),
                                !.log = Append(@, LogRetry(n, err, config))]]
    /\ UNCHANGED <<config, imported, decorated_with, stop, client>>

(* The backoff sleep ends: the next attempt *)
Wake(t) ==
    /\ call[t].pc = "sleeping"
    /\ call' = [call EXCEPT ![t].pc = "attempt",
                            ![t].attempt_number = NextAttemptNumber(t)]
    /\ UNCHANGED <<config, imported, decorated_with, stop, client>>

-----------------------------------------------------------------------------
(* Specifications *)

InitOf(Rs, Ts) ==
    /\ config \in Rs
    /\ imported = FALSE
    /\ decorated_with = 0
    /\ stop = [op \in Ops |-> 0]
    /\ client = NoClient
    /\ call = [t \in Ts |-> IdleCall]

(* The retry policy of generate_text, the setting changing at any time *)
Init == InitOf(0 .. MaxRetries, {"t1"})
Next ==
    \/ SetConfig(0 .. MaxRetries)
    \/ Import
    \/ Construct({FALSE}, {"key"}, {""}, {DefaultModel})
    \/ StartCall("t1", {"generate_text"}, {TRUE}, {0})
    \/ Attempt("t1", AllResponses)
    \/ Wake("t1")
Spec == Init /\ [][Next]_vars

(* Construction with every credential combination, both operations, every
   thinking budget *)
InitRequest == InitOf(0 .. MaxRetries, {"t1"})
NextRequest ==
    \/ Import
    \/ Construct(BOOLEAN, {"", "key"}, {"", "proj"}, {DefaultModel, "gemini-pro"})
    \/ StartCall("t1", Ops, BOOLEAN, 0 .. MaxBudget)
    \/ Attempt("t1", PlainResponses)
    \/ Wake("t1")
SpecRequest == InitRequest /\ [][NextRequest]_vars

(* Long retry sequences, for the backoff waits *)
InitBackoff == InitOf(0 .. BackoffRetries, {"t1"})
NextBackoff ==
    \/ Import
    \/ Construct({FALSE}, {"key"}, {""}, {DefaultModel})
    \/ StartCall("t1", Ops, {TRUE}, {0})
    \/ Attempt("t1", PlainResponses \cup {RespEmptyCand})
    \/ Wake("t1")
SpecBackoff == InitBackoff /\ [][NextBackoff]_vars

(* Two threads calling one client *)
Threads == {"t1", "t2"}
InitConc == InitOf(0 .. ConcRetries, Threads)
NextConc ==
    \/ SetConfig(0 .. ConcRetries)
    \/ Import
    \/ Construct(BOOLEAN, {"key"}, {"proj"}, {DefaultModel})
    \/ \E t \in Threads : StartCall(t, Ops, {TRUE}, {0})
    \/ \E t \in Threads : Attempt(t, {RespText("slide"), RespError})
    \/ \E t \in Threads : Wake(t)
SpecConc == InitConc /\ [][NextConc]_vars

-----------------------------------------------------------------------------
(* Views of a call used by the properties *)

Calls == DOMAIN call
RetryLog(t) == SelectSeq(call[t].log, LAMBDA e : e.kind = "retry")
DiagLog(t) == SelectSeq(call[t].log, LAMBDA e : e.kind # "retry")
Last(s) == s[Len(s)]
AllFailed(t, k) == \A i \in 1 .. k : ~call[t].outcomes[i].ok
Ended(t) == call[t].pc \in {"returned", "raised"}
(* The failed attempts that were followed by a backoff wait *)
Retried(t) == IF Ended(t) THEN Len(call[t].outcomes) - 1 ELSE Len(call[t].outcomes)
ClosedFormWait(i) == Min(10, Max(2, 2 ^ (i - 1)))

-----------------------------------------------------------------------------
(* C1: with R the max_retries value the retry decorator was evaluated with, a
   call makes at most R + 1 attempts (and sends at most R + 1 requests); it
   raises exactly when R + 1 attempts have all failed, the error raised is the
   last attempt's, and it is the empty-response error when the last response
   had text None. *)
C1_AttemptLimit ==
    \A t \in Calls :
        LET c == call[t]
            k == Len(c.outcomes)
        IN  /\ k <= decorated_with + 1
            /\ Len(c.sent) <= decorated_with + 1
            /\ (c.pc = "raised" =>
                    /\ k = decorated_with + 1
                    /\ AllFailed(t, k)
                    /\ c.error = Last(c.outcomes).err)
            /\ (k = decorated_with + 1 /\ AllFailed(t, k) => c.pc = "raised")
            /\ (c.pc = "raised" /\ c.image_ok /\ ~Last(c.outcomes).resp.raises
                    /\ Last(c.outcomes).resp.text_is_none
                  => c.error.type = "EmptyResponse")

C1_Witness ==
    /\ decorated_with = 2
    /\ call["t1"].pc = "raised"
    /\ Len(call["t1"].outcomes) = 3
    /\ \A i \in 1 .. 3 : call["t1"].outcomes[i].resp.text_is_none
                         /\ ~call["t1"].outcomes[i].resp.raises
    /\ call["t1"].error = [type |-> "EmptyResponse", attempt |-> 3]

(* C2: a generate_with_image call whose image cannot be decoded raises the
   image-load error on its first attempt: one attempt, no backoff wait, no
   warning logged, no request sent. *)
C2_ImageErrorNotRetried ==
    \A t \in Calls :
        LET c == call[t]
        IN  (c.op = "generate_with_image" /\ ~c.image_ok /\ Len(c.outcomes) > 0) =>
                /\ c.pc = "raised"
                /\ c.error = [type |-> "ImageLoadError", attempt |-> 1]
                /\ Len(c.outcomes) = 1
                /\ c.waits = <<>>
                /\ c.log = <<>>
                /\ c.sent = <<>>

(* C3: no usable client exists whose mode's required credential is empty:
   project_id in Vertex AI mode, api_key in API-key mode. *)
C3_EmptyCredentialRejected ==
    client.status = "ready" =>
        /\ (client.vertexai => client.project # "")
        /\ (~client.vertexai => client.api_key # "")

(* C4: a call that fails on its first k attempts and succeeds on attempt k + 1
   returns the text of that attempt's response, and exactly k retry warnings
   were logged, one per failed attempt. *)
C4_SuccessAfterFailures ==
    \A t \in Calls :
        LET c == call[t]
            k == Len(c.outcomes) - 1
        IN  c.pc = "returned" =>
                /\ AllFailed(t, k)
                /\ k <= decorated_with
                /\ ~Last(c.outcomes).resp.text_is_none
                /\ c.result \in Texts
                /\ c.result = Last(c.outcomes).resp.text
                /\ Len(RetryLog(t)) = k
                /\ \A i \in 1 .. k : RetryLog(t)[i].attempt = i

C4_Witness ==
    /\ call["t1"].pc = "returned"
    /\ Len(call["t1"].outcomes) = 3
    /\ Len(RetryLog("t1")) = 2
    /\ Len(DiagLog("t1")) = 2
    /\ call["t1"].result = "outline"

(* C5, as claimed: every failed attempt, the last one of an exhausted sequence
   included, has its retry warning, and the total it shows is the attempt
   limit enforced for the call. *)
C5_EveryFailureLogged ==
    \A t \in Calls :
        LET c == call[t]
            rl == RetryLog(t)
        IN  /\ Len(rl) = Cardinality({i \in 1 .. Len(c.outcomes) : ~c.outcomes[i].ok})
            /\ \A i \in 1 .. Len(rl) : rl[i].total = stop[c.op]

(* The two parts of the amended C5: what is logged, and the total shown *)
C5_RetriedFailures ==
    \A t \in Calls :
        LET c == call[t]
            rl == RetryLog(t)
        IN  /\ Len(rl) = Retried(t)
            /\ \A i \in 1 .. Len(rl) :
                    /\ rl[i].attempt = i
                    /\ ~c.outcomes[i].ok
                    /\ rl[i].error = c.outcomes[i].err
            /\ (c.pc = "raised" =>
                    \A i \in 1 .. Len(rl) : rl[i].attempt # Len(c.outcomes))
C5_TotalReadAtLogTime ==
    \A t \in Calls :
        Len(RetryLog(t)') = Len(RetryLog(t)) + 1 =>
            Last(RetryLog(t)').total = config + 1
(* C5, amended: the retry warnings of a call are exactly its failed attempts
   that were followed by a retry, in order, each with its attempt number and
   its error; the last attempt of an exhausted sequence has none; the total
   shown is the max_retries setting read when the warning is written, plus 1. *)
C5_RetryLog == [](C5_RetriedFailures) /\ [][C5_TotalReadAtLogTime]_vars

C5_Witness ==
    /\ call["t1"].pc = "raised"
    /\ Len(call["t1"].outcomes) = 3
    /\ Len(RetryLog("t1")) = 2
    /\ RetryLog("t1")[1].total = 3
    /\ RetryLog("t1")[2].total = 1
    /\ RetryLog("t1")[2].error.type = "EmptyResponse"

(* C6: a call that exhausts its attempts raises exactly the final attempt's
   error, never a retry-specific wrapper; a call ends with one text result or
   one error, never both, and nothing reaches the caller before the end. *)
C6_FinalErrorUnwrapped ==
    \A t \in Calls :
        LET c == call[t]
        IN  /\ (c.pc = "raised" =>
                    /\ c.error = Last(c.outcomes).err
                    /\ c.error.attempt = Len(c.outcomes)
                    /\ c.error.type \in {"ProviderError", "EmptyResponse", "ImageLoadError"}
                    /\ c.result = NoText)
            /\ (c.pc = "returned" =>
                    /\ c.error = NoErr
                    /\ c.result = Last(c.outcomes).text)
            /\ (~Ended(t) => c.error = NoErr /\ c.result = NoText)

C6_Witness ==
    /\ call["t1"].pc = "raised"
    /\ Len(call["t1"].outcomes) = 3
    /\ call["t1"].outcomes[1].err.type = "EmptyResponse"
    /\ call["t1"].outcomes[2].err.type = "EmptyResponse"
    /\ call["t1"].error = [type |-> "ProviderError", attempt |-> 3]

(* C7: every request of a call (one per attempt that gets past image loading)
   carries no thinking_config at all when thinking_budget = 0, and carries
   thinking_config with exactly the value N when thinking_budget = N > 0. *)
C7_ThinkingBudget ==
    \A t \in Calls :
        LET c == call[t]
        IN  /\ (c.image_ok => Len(c.sent) = Len(c.outcomes))
            /\ \A i \in 1 .. Len(c.sent) :
                    /\ (c.budget = 0 =>
                            /\ DOMAIN c.sent[i].params = {}
                            /\ c.sent[i].config_is_none)
                    /\ (c.budget > 0 =>
                            /\ DOMAIN c.sent[i].params = {"thinking_config"}
                            /\ c.sent[i].params["thinking_config"] = c.budget
                            /\ ~c.sent[i].config_is_none)

C7_Witness ==
    /\ call["t1"].op = "generate_with_image"
    /\ call["t1"].budget = 2
    /\ Len(call["t1"].sent) = 2
    /\ call["t1"].sent[2].params["thinking_config"] = 2

(* C8, as claimed: the waits lie in [2, 10], never decrease, stay 10 once they
   reach 10, and the wait after the i-th failed attempt is
   min(10, max(2, 2^i)). *)
C8_WaitsAsClaimed ==
    \A t \in Calls :
        LET w == call[t].waits
        IN  \A i \in 1 .. Len(w) :
                /\ 2 <= w[i] /\ w[i] <= 10
                /\ w[i] = Min(10, Max(2, 2 ^ i))
                /\ \A j \in i .. Len(w) :
                        /\ w[i] <= w[j]
                        /\ (w[i] = 10 => w[j] = 10)

(* C8, amended: the waits of one retry sequence, one after each failed attempt
   that is retried, lie in [2, 10], never decrease, stay 10 once they reach 10,
   and the wait after the i-th failed attempt is min(10, max(2, 2^(i-1))):
   2, 2, 4, 8, 10, 10, ... *)
C8_BackoffWaits ==
    \A t \in Calls :
        LET w == call[t].waits
        IN  /\ Len(w) = Retried(t)
            /\ \A i \in 1 .. Len(w) :
                    /\ 2 <= w[i] /\ w[i] <= 10
                    /\ w[i] = ClosedFormWait(i)
                    /\ \A j \in i .. Len(w) :
                            /\ w[i] <= w[j]
                            /\ (w[i] = 10 => w[j] = 10)

C8_Witness ==
    /\ call["t1"].waits = <<2, 2, 4, 8, 10, 10>>
    /\ call["t1"].pc = "raised"

(* C9, as claimed: the attempts a call is allowed follow the max_retries
   setting as it was when the call began (so a change made before the call
   counts, a change made during it does not). *)
C9_LimitFollowsSettingAtCall ==
    \A t \in Calls :
        call[t].pc = "raised" => Len(call[t].outcomes) = call[t].cfg_at_start + 1

(* The two parts of the amended C9: the limit enforced, and when it is bound *)
C9_LimitBoundAtImport ==
    /\ (imported => \A op \in Ops : stop[op] = decorated_with + 1)
    /\ \A t \in Calls :
            /\ (call[t].pc = "raised" => Len(call[t].outcomes) = decorated_with + 1)
            /\ (call[t].pc = "sleeping" => Len(call[t].outcomes) <= decorated_with)
C9_ImportBinds ==
    /\ (~imported /\ imported' => decorated_with' = config)
    /\ (imported => imported' /\ stop' = stop /\ decorated_with' = decorated_with)
(* C9, amended: the attempt limit is the setting read when the retry
   decorators are evaluated at module import; a change made before the import
   changes it, and no change made after the import, before the first call or
   during a retry sequence, changes the limit of any call. *)
C9_LimitFixed == [](C9_LimitBoundAtImport) /\ [][C9_ImportBinds]_vars

C9_Witness ==
    /\ call["t1"].pc = "raised"
    /\ decorated_with = 1
    /\ call["t1"].cfg_at_start = 2
    /\ config = 0
    /\ RetryLog("t1")[1].total = 3
    /\ Len(call["t1"].outcomes) = 2

(* The two parts of C10: each call's own sequence, and the client unchanged *)
C10_OwnSequence ==
    \A t \in Calls :
        LET c == call[t]
            k == Len(c.outcomes)
        IN  /\ (c.pc = "idle" => k = 0 /\ c.attempt_number = 0)
            /\ (c.pc = "attempt" => c.attempt_number = k + 1 /\ AllFailed(t, k))
            /\ (c.pc = "sleeping" => c.attempt_number = k /\ AllFailed(t, k))
            /\ (c.pc = "returned" =>
                    /\ c.attempt_number = k
                    /\ AllFailed(t, k - 1)
                    /\ Last(c.outcomes).ok
                    /\ c.result = Last(c.outcomes).text)
            /\ (c.pc = "raised" =>
                    /\ c.attempt_number = k
                    /\ AllFailed(t, k)
                    /\ k = decorated_with + 1
                    /\ c.error = Last(c.outcomes).err)
            /\ c.waits = [i \in 1 .. Retried(t) |-> wait_exponential(i)]
            /\ \A i \in 1 .. Len(c.sent) : c.sent[i].model = client.model
C10_ClientFixed == client.status = "ready" => client' = client
(* C10: once built, the client is never modified, and in every interleaving
   each call's attempt number, backoff waits and outcome are those its own
   attempts' results determine. *)
C10_Independent == [](C10_OwnSequence) /\ [][C10_ClientFixed]_vars

C10_Witness ==
    /\ call["t1"].pc = "raised"
    /\ Len(call["t1"].outcomes) = 2
    /\ call["t2"].pc = "returned"
    /\ Len(call["t2"].outcomes) = 1
    /\ client.vertexai

====
